---- MODULE Spec2Model ----
(***************************************************************************)
(* A model of the turbowish-mocks dashboard renderer: the primitive        *)
(* widgets of src/src/widgets.rs (pure paint routines from a rectangle and *)
(* parameters to a list of Buffer::set_string calls) and the compositor    *)
(* Renderer of src/src/main.rs (registry of bindings, recursive walk).     *)
(*                                                                         *)
(* Numbers.  Cell coordinates are u16: additions and subtractions are kept *)
(* modulo 2^16, and an overflow either panics (overflow checks on, the     *)
(* debug profile) or wraps (checks off, the release profile); the profile  *)
(* is the variable overflow_checks, chosen once.  f32 values are modelled  *)
(* as exact rationals plus NaN and the two infinities; samples and ranges  *)
(* are small integers, for which f32 arithmetic agrees with the rationals. *)
(***************************************************************************)
EXTENDS Integers, Sequences, FiniteSets, TLC

VARIABLES
    overflow_checks,            \* build profile: TRUE = overflow panics
    widget,                     \* the widget value being rendered
    area,                       \* the Rect handed to Widget::render
    out,                        \* what render did: [failed, writes]
    wpc                         \* "ready" before render, "done" after

VARIABLES
    pc,                         \* compositor phase
    children,                   \* stretch: node -> ordered child nodes
    stretch_node_to_widget,     \* Renderer field: node -> widget
    stretch_node_to_bg_color,   \* Renderer field: node -> colour
    calls,                      \* pending render calls, innermost first
    visits,                     \* node -> number of render calls entered
    location,                   \* node -> solver (x, y) read at its visit
    local,                      \* locals of the render call in progress
    events,                     \* paint events of the pass, in order
    unpainted                   \* bindings inserted and not painted since

wvars == <<widget, area, out, wpc>>
cvars == <<pc, children, stretch_node_to_widget, stretch_node_to_bg_color,
           calls, visits, location, local, events, unpainted>>
vars == <<overflow_checks, widget, area, out, wpc, pc, children,
          stretch_node_to_widget, stretch_node_to_bg_color, calls, visits,
          location, local, events, unpainted>>

----------------------------------------------------------------------------
(* Bounds of the model. *)

MaxSample == 4      \* samples, min_y and max_y range over 0..MaxSample
MaxLen == 3         \* BarChart data holds at most MaxLen samples
MaxPos == 1         \* rectangle origins range over 0..MaxPos
MaxDim == 4         \* widget rectangles are at most MaxDim wide and high
MaxVal == 3         \* Scrollbar values and ranges range over 0..MaxVal
MaxLabels == 3      \* label lists hold at most MaxLabels labels

(* u16::MAX + 1.  TLC holds 32-bit integers, so the largest of them stands *)
(* for u32::MAX; no value of the model comes near either.                  *)
U16 == 65536
U32Max == 2147483647

----------------------------------------------------------------------------
(* u16 arithmetic.  An operation overflows when its exact result leaves    *)
(* 0..U16-1; the wrapped result is the exact one modulo U16.               *)

InU16(n) == n >= 0 /\ n < U16
Wrap16(n) == n % U16

(* tui::layout::Rect *)
TuiRect(x, y, width, height) == [x |-> x, y |-> y, width |-> width, height |-> height]
Right(r) == r.x + r.width
Bottom(r) == r.y + r.height

(* tui::style::Style: Style::default() and its builders. *)
StyleDefault == [fg |-> "none", bg |-> "none", bold |-> FALSE]
Fg(style, color) == [style EXCEPT !.fg = color]
Bg(style, color) == [style EXCEPT !.bg = color]
Bold(style) == [style EXCEPT !.bold = TRUE]

(* One Buffer::set_string call. *)
SetString(x, y, text, style) ==
    [op |-> "set_string", x |-> x, y |-> y, text |-> text, style |-> style]

(* str::chars().count() of a label, a sequence of chars. *)
CharsCount(label) == Len(label)

Max(a, b) == IF a >= b THEN a ELSE b
Min(a, b) == IF a <= b THEN a ELSE b

----------------------------------------------------------------------------
(* f32.  A value is NaN, an infinity, or the rational n/d with d > 0.      *)

NaN == [k |-> "nan"]
PosInf == [k |-> "inf", s |-> 1]
NegInf == [k |-> "inf", s |-> -1]
Num(n, d) == [k |-> "num", n |-> n, d |-> d]

(* a / b for integers a, b (IEEE: x/0 is an infinity, 0/0 is NaN). *)
FDiv(a, b) ==
    IF b = 0 THEN (IF a = 0 THEN NaN ELSE IF a > 0 THEN PosInf ELSE NegInf)
    ELSE IF b > 0 THEN Num(a, b) ELSE Num(-a, -b)

(* x < y; every comparison with NaN is false. *)
FLess(x, y) ==
    IF x.k = "nan" \/ y.k = "nan" THEN FALSE
    ELSE IF x.k = "inf" THEN x.s = -1 /\ ~(y.k = "inf" /\ y.s = -1)
    ELSE IF y.k = "inf" THEN y.s = 1
    ELSE x.n * y.d < y.n * x.d

(* x * m for a finite integer m >= 0 (NaN stays NaN, inf * 0 is NaN). *)
FMulInt(x, m) ==
    IF x.k = "nan" THEN NaN
    ELSE IF x.k = "inf" THEN (IF m = 0 THEN NaN ELSE x)
    ELSE Num(x.n * m, x.d)

(* Integer division rounding toward minus infinity, for d > 0. *)
FloorDiv(n, d) == n \div d
CeilDiv(n, d) == -((-n) \div d)

(* f32::floor, f32::ceil, f32::round (half away from zero). *)
FFloor(x) == IF x.k = "num" THEN Num(FloorDiv(x.n, x.d), 1) ELSE x
FCeil(x) == IF x.k = "num" THEN Num(CeilDiv(x.n, x.d), 1) ELSE x
FRound(x) ==
    IF x.k # "num" THEN x
    ELSE IF x.n >= 0 THEN Num(FloorDiv(2 * x.n + x.d, 2 * x.d), 1)
    ELSE Num(-FloorDiv(2 * (-x.n) + x.d, 2 * x.d), 1)

(* `x as uN`, uN::MAX being `most`: the cast cuts the fraction off (it     *)
(* rounds toward zero), saturates, and turns NaN into 0.                   *)
AsUnsigned(x, most) ==
    IF x.k = "nan" THEN 0
    ELSE IF x.k = "inf" THEN (IF x.s = 1 THEN most ELSE 0)
    ELSE IF x.n < 0 THEN 0
    ELSE Min(x.n \div x.d, most)

Zero == Num(0, 1)
One == Num(1, 1)

(* widgets.rs clamp *)
clamp(x, min_val, max_val) ==
    IF FLess(x, min_val) THEN min_val
    ELSE IF FLess(max_val, x) THEN max_val
    ELSE x

----------------------------------------------------------------------------
(* Widget values (the structs of widgets.rs) and the result of a render.   *)

BarChartNew(data, min_y, max_y, color) ==
    [kind |-> "BarChart", data |-> data, min_y |-> min_y, max_y |-> max_y,
     color |-> color]
ScrollbarNew(min_val, max_val, min_range, max_range, color) ==
    [kind |-> "Scrollbar", min_val |-> min_val, max_val |-> max_val,
     min_range |-> min_range, max_range |-> max_range, color |-> color]
SegmentedControlNew(labels, selected_index, bg_color, fg_color) ==
    [kind |-> "SegmentedControl", labels |-> labels,
     selected_index |-> selected_index, bg_color |-> bg_color,
     fg_color |-> fg_color]
PowerlineNew(labels, direction, main_visibility) ==
    [kind |-> "Powerline", labels |-> labels, direction |-> direction,
     main_visibility |-> main_visibility, main_color |-> "main_color",
     sub_color |-> "sub_color", sub_sub_bg_color |-> "sub_sub_bg_color",
     sub_sub_fg_color |-> "sub_sub_fg_color",
     sub_separator_color |-> "sub_separator_color"]
BoxFrameNew(label) ==
    [kind |-> "BoxFrame", label |-> label, border_color |-> "border_color",
     text_color |-> "text_color"]
(* tui's Paragraph, an external widget: it paints text into a rectangle. *)
ParagraphNew(text, style) == [kind |-> "Paragraph", text |-> text, style |-> style]

(* A render that ran to its end, and one that panicked after `writes`. *)
Done(writes) == [failed |-> FALSE, writes |-> writes]
Panicked(writes) == [failed |-> TRUE, writes |-> writes]
NotRendered == [failed |-> FALSE, writes |-> <<>>]

(* Paragraph::render into `rect`: the text, cut to the rectangle. *)
RenderParagraph(w, rect) ==
    Done(<<[op |-> "paragraph", rect |-> rect, text |-> w.text, style |-> w.style]>>)

(* The cells one write covers (every glyph is one cell wide). *)
WriteCells(wr) ==
    IF wr.op = "set_string"
    THEN {<<wr.x + i, wr.y>> : i \in 0..(Len(wr.text) - 1)}
    ELSE IF wr.op = "track"
    THEN {<<wr.x, r>> : r \in wr.from..(wr.to - 1)}
    ELSE {<<wr.rect.x + i, wr.rect.y + j>> :
            i \in 0..(Min(Len(wr.text), wr.rect.width) - 1),
            j \in 0..(Min(1, wr.rect.height) - 1)}

CellsWritten(o) == UNION {WriteCells(o.writes[i]) : i \in 1..Len(o.writes)}

(* A write that covers no cell, and a render none of whose writes does. *)
WritesNoCell(wr) ==
    IF wr.op = "set_string" THEN Len(wr.text) = 0
    ELSE IF wr.op = "track" THEN wr.from >= wr.to
    ELSE Len(wr.text) = 0 \/ wr.rect.width = 0 \/ wr.rect.height = 0
NoCellWritten(o) == \A i \in 1..Len(o.writes) : WritesNoCell(o.writes[i])

----------------------------------------------------------------------------
(* BarChart (widgets.rs 110-141) *)

(* DOTS[mask]: the code point of the braille glyph of the table.  Bits 0-3 *)
(* of the index light the left sub-column from the bottom up, bits 4-7 the *)
(* right one.                                                              *)
DotWeight(b) ==
    CASE b = 0 -> 64 [] b = 1 -> 4 [] b = 2 -> 2 [] b = 3 -> 1
      [] b = 4 -> 128 [] b = 5 -> 32 [] b = 6 -> 16 [] b = 7 -> 8
Bit(n, b) == (n \div (2 ^ b)) % 2
RECURSIVE DotSum(_, _)
DotSum(mask, b) ==
    IF b > 7 THEN 0 ELSE Bit(mask, b) * DotWeight(b) + DotSum(mask, b + 1)
DOTS(mask) == 10240 + DotSum(mask, 0)

(* Lines 130-131: the height of one sample, 0..4. *)
BarHeight(value, min_y, max_y) ==
    LET y_range == max_y - min_y
        height_norm == clamp(FDiv(value - min_y, y_range), Zero, One)
    IN  AsUnsigned(FRound(FMulInt(height_norm, 4)), U32Max)

(* Line 132: (current_char << 4) | ((1 << height) - 1). *)
PushNibble(current_char, height) == current_char * 16 + ((2 ^ height) - 1)

(* Lines 125-134: the while loop, x counting from 0. *)
RECURSIVE BarChartLoop(_, _, _, _)
BarChartLoop(w, x, string, current_char) ==
    IF x < Len(w.data)
    THEN LET flush == x > 0 /\ x % 2 = 0
             string1 == IF flush THEN Append(string, DOTS(current_char)) ELSE string
             char1 == IF flush THEN 0 ELSE current_char
             height == BarHeight(w.data[x + 1], w.min_y, w.max_y)
         IN  BarChartLoop(w, x + 1, string1, PushNibble(char1, height))
    ELSE [x |-> x, string |-> string, current_char |-> current_char]

(* Lines 135-137: the flush after the loop. *)
BarChartFinalFlush(end) ==
    IF end.x % 2 = 1 THEN Append(end.string, DOTS(end.current_char)) ELSE end.string

(* The glyph string BarChart::render builds. *)
BarChartString(w) == BarChartFinalFlush(BarChartLoop(w, 0, <<>>, 0))

RenderBarChart(w, rect) ==
    Done(<<SetString(rect.x, rect.y, BarChartString(w), Fg(StyleDefault, w.color))>>)

----------------------------------------------------------------------------
(* Scrollbar (widgets.rs 143-175) *)

SCROLLBAR_UP_SYMBOL == "scrollbar_up"
SCROLLBAR_DOWN_SYMBOL == "scrollbar_down"
THUMB == "thumb"
TRACK == "track"

(* A faulty normalisation that forgets the start of the range. *)
ScrollbarNormFromZero(val, w) ==
    clamp(FDiv(val, w.max_range - w.min_range), Zero, One)

(* Lines 156-159: a value normalised against the range and clamped. *)
ScrollbarNorm(val, w) ==
    clamp(FDiv(val - w.min_range, w.max_range - w.min_range), Zero, One)

(* Lines 165-172: the loop over the track rows from..to-1, kept as one     *)
(* record; row y holds the thumb glyph iff min_pos <= y <= max_pos.        *)
TrackLoop(x, from, to, min_pos, max_pos, style) ==
    [op |-> "track", x |-> x, from |-> from, to |-> to, min_pos |-> min_pos,
     max_pos |-> max_pos, style |-> style]
TrackGlyph(wr, y) == IF y >= wr.min_pos /\ y <= wr.max_pos THEN THUMB ELSE TRACK

(* A faulty first thumb row, rounded up instead of down. *)
ThumbStartCeil(min_val, rows, y) ==
    AsUnsigned(FCeil(FMulInt(min_val, rows)), U16 - 1) + y + 1

(* Line 160: the first thumb row, before the u16 additions are reduced. *)
ThumbStart(min_val, rows, y) ==
    AsUnsigned(FFloor(FMulInt(min_val, rows)), U16 - 1) + y + 1

(* Line 161: the last thumb row. *)
ThumbEnd(max_val, rows, y) ==
    AsUnsigned(FCeil(FMulInt(max_val, rows)), U16 - 1) + y + 1

RenderScrollbar(w, rect) ==
    LET min_val == ScrollbarNorm(w.min_val, w)
        max_val == ScrollbarNorm(w.max_val, w)
        rows_exact == rect.height - 2
        rows == Wrap16(rows_exact)
        min_exact == ThumbStart(min_val, rows, rect.y)
        max_exact == ThumbEnd(max_val, rows, rect.y)
        last_exact == Bottom(rect) - 1
        style == Fg(StyleDefault, w.color)
        up == SetString(rect.x, rect.y, <<SCROLLBAR_UP_SYMBOL>>, style)
        track == TrackLoop(rect.x, rect.y + 1, Wrap16(last_exact),
                           Wrap16(min_exact), Wrap16(max_exact), style)
        down == SetString(rect.x, Wrap16(last_exact), <<SCROLLBAR_DOWN_SYMBOL>>, style)
    IN  IF overflow_checks /\ ~(InU16(rows_exact) /\ InU16(min_exact) /\ InU16(max_exact))
        THEN Panicked(<<>>)
        ELSE Done(<<up, track, down>>)

----------------------------------------------------------------------------
(* SegmentedControl (widgets.rs 62-108) *)

LEFT_CAP == "left_cap"
RIGHT_CAP == "right_cap"
BLANK == " "

(* Lines 84-88: the style of segment `index` (counting from 0). *)
SegmentStyle(w, index) ==
    IF index = w.selected_index
    THEN Bg(Fg(StyleDefault, w.bg_color), w.fg_color)
    ELSE Bg(Fg(StyleDefault, w.fg_color), w.bg_color)

(* A faulty left cap, always drawn as if the first segment were selected. *)
LeftEdgeStyleSelected(w) == Fg(StyleDefault, w.fg_color)

(* Lines 75-79. *)
LeftEdgeStyle(w) ==
    IF w.selected_index = 0
    THEN Fg(StyleDefault, w.fg_color)
    ELSE Fg(StyleDefault, w.bg_color)

(* Lines 101-105; `last` is labels.len() - 1 as the build computes it. *)
RightEdgeStyle(w, last) ==
    IF w.selected_index = last
    THEN Fg(StyleDefault, w.fg_color)
    ELSE Fg(StyleDefault, w.bg_color)

(* Lines 83-99: the loop over the labels; st is [x, writes]. *)
RECURSIVE SegmentLoop(_, _, _, _)
SegmentLoop(w, y, index, st) ==
    IF index >= Len(w.labels) THEN st
    ELSE LET style == SegmentStyle(w, index)
             label == w.labels[index + 1]
             lead == IF index > 0
                     THEN [x |-> st.x + 1,
                           writes |-> Append(st.writes, SetString(st.x, y, <<BLANK>>, style))]
                     ELSE st
             text == [x |-> lead.x + CharsCount(label),
                      writes |-> Append(lead.writes, SetString(lead.x, y, label, style))]
             trail == IF index < Len(w.labels) - 1
                      THEN [x |-> text.x + 1,
                            writes |-> Append(text.writes, SetString(text.x, y, <<BLANK>>, style))]
                      ELSE text
         IN  SegmentLoop(w, y, index + 1, trail)

RenderSegmentedControl(w, rect) ==
    LET left == SetString(rect.x, rect.y, <<LEFT_CAP>>, LeftEdgeStyle(w))
        st == SegmentLoop(w, rect.y, 0, [x |-> rect.x + 1, writes |-> <<left>>])
        last_exact == Len(w.labels) - 1
        right == SetString(st.x, rect.y, <<RIGHT_CAP>>, RightEdgeStyle(w, last_exact))
    IN  IF last_exact < 0 /\ overflow_checks
        THEN Panicked(st.writes)
        ELSE Done(Append(st.writes, right))

----------------------------------------------------------------------------
(* Powerline (widgets.rs 177-284) *)

POWERLINE_MAIN_SEPARATOR_LABEL_LTR == "main_separator_ltr"
POWERLINE_SUB_SEPARATOR_LABEL_LTR == "sub_separator_ltr"
POWERLINE_MAIN_SEPARATOR_LABEL_RTL == "main_separator_rtl"
POWERLINE_SUB_SEPARATOR_LABEL_RTL == "sub_separator_rtl"

(* Lines 209-220: the style of segment `index`. *)
PowerlineStyle(w, index) ==
    IF index = 0 /\ w.main_visibility = "Visible"
    THEN Bold(Fg(Bg(StyleDefault, w.main_color), "Black"))
    ELSE IF (index = 1 /\ w.main_visibility = "Visible")
            \/ (index = 0 /\ w.main_visibility = "Invisible")
    THEN Fg(Bg(StyleDefault, w.sub_color), "Black")
    ELSE Fg(Bg(StyleDefault, w.sub_sub_bg_color), w.sub_sub_fg_color)

(* Lines 225-247: the separator after segment `index`. *)
SeparatorOf(w, index) ==
    IF index = 0 /\ w.main_visibility = "Visible"
    THEN [style |-> Fg(Bg(StyleDefault, w.sub_color), w.main_color), is_sub |-> FALSE]
    ELSE IF (index = 1 /\ w.main_visibility = "Visible")
            \/ (index = 0 /\ w.main_visibility = "Invisible")
    THEN [style |-> Fg(Bg(StyleDefault, w.sub_sub_bg_color), w.sub_color), is_sub |-> FALSE]
    ELSE IF index < Len(w.labels) - 1
    THEN [style |-> Fg(Bg(StyleDefault, w.sub_sub_bg_color), w.sub_separator_color),
          is_sub |-> TRUE]
    ELSE [style |-> Fg(StyleDefault, w.sub_sub_bg_color), is_sub |-> FALSE]

(* Lines 249-254. *)
SeparatorLabel(is_sub, direction) ==
    IF direction = "LeftToRight"
    THEN (IF is_sub THEN POWERLINE_SUB_SEPARATOR_LABEL_LTR
                    ELSE POWERLINE_MAIN_SEPARATOR_LABEL_LTR)
    ELSE (IF is_sub THEN POWERLINE_SUB_SEPARATOR_LABEL_RTL
                    ELSE POWERLINE_MAIN_SEPARATOR_LABEL_RTL)

(* Lines 266-282: st is [x, writes, failed]; a call after a panic does     *)
(* nothing.  Going right to left the cursor moves back before the write.   *)
write_and_advance(st, y, string, style, direction) ==
    LET string_length == CharsCount(string)
        back == st.x - string_length
        at == IF direction = "RightToLeft" THEN Wrap16(back) ELSE st.x
        forth == at + string_length
    IN  IF st.failed THEN st
        ELSE IF direction = "RightToLeft" /\ ~InU16(back) /\ overflow_checks
        THEN [st EXCEPT !.failed = TRUE]
        ELSE IF direction = "LeftToRight" /\ ~InU16(forth) /\ overflow_checks
        THEN [st EXCEPT !.failed = TRUE,
                        !.writes = Append(@, SetString(at, y, string, style))]
        ELSE [x |-> IF direction = "LeftToRight" THEN Wrap16(forth) ELSE at,
              writes |-> Append(st.writes, SetString(at, y, string, style)),
              failed |-> FALSE]

(* Lines 208-264: the loop over the labels. *)
RECURSIVE PowerlineLoop(_, _, _, _)
PowerlineLoop(w, y, index, st) ==
    IF index >= Len(w.labels) THEN st
    ELSE LET style == PowerlineStyle(w, index)
             sep == SeparatorOf(w, index)
             s1 == write_and_advance(st, y, <<BLANK>>, style, w.direction)
             s2 == write_and_advance(s1, y, w.labels[index + 1], style, w.direction)
             s3 == write_and_advance(s2, y, <<BLANK>>, style, w.direction)
             s4 == write_and_advance(s3, y, <<SeparatorLabel(sep.is_sub, w.direction)>>,
                                     sep.style, w.direction)
         IN  PowerlineLoop(w, y, index + 1, s4)

RenderPowerline(w, rect) ==
    LET x == IF w.direction = "LeftToRight" THEN rect.x ELSE Right(rect)
        st == PowerlineLoop(w, rect.y, 0, [x |-> x, writes |-> <<>>, failed |-> FALSE])
    IN  [failed |-> st.failed, writes |-> st.writes]

----------------------------------------------------------------------------
(* BoxFrame (widgets.rs 286-329) *)

FRAME_UPPER_LEFT_SYMBOL == "upper_left"
FRAME_UPPER_RIGHT_SYMBOL == "upper_right"
FRAME_LOWER_RIGHT_SYMBOL == "lower_right"
FRAME_LOWER_LEFT_SYMBOL == "lower_left"
FRAME_HORIZONTAL_SYMBOL == "horizontal"
FRAME_VERTICAL_SYMBOL == "vertical"

(* The number of turns of `for _ in from..to`. *)
RangeLen(from, to) == IF to > from THEN to - from ELSE 0

(* A faulty end of the horizontal fill loop, too large: the loop runs for  *)
(* a rectangle one cell wide.                                              *)
FillEndLong(width) == width + 1

(* Line 302: the end of the horizontal fill loop, `area.width - 1`, and    *)
(* lines 311-312: the last row, `area.bottom() - 1`; each u16 result       *)
(* before it is reduced.                                                   *)
FillEnd(width) == width - 1
LastRow(rect) == Bottom(rect) - 1

(* Lines 300-307: a corner, the horizontal fill, a corner. *)
FrameRow(left, right, width) ==
    <<left>>
    \o [i \in 1..RangeLen(1, Wrap16(FillEnd(width))) |-> FRAME_HORIZONTAL_SYMBOL]
    \o <<right>>

(* Faulty sides: the left vertical glyph of each row only. *)
FrameSidesLeft(rect, style) ==
    [i \in 1..RangeLen(rect.y + 1, Bottom(rect) - 1) |->
        SetString(rect.x, rect.y + i, <<FRAME_VERTICAL_SYMBOL>>, style)]

(* Lines 312-315: the two vertical glyphs of each row between the corners. *)
FrameSides(rect, style) ==
    [i \in 1..(2 * RangeLen(rect.y + 1, Wrap16(LastRow(rect)))) |->
        IF i % 2 = 1
        THEN SetString(rect.x, rect.y + 1 + (i - 1) \div 2, <<FRAME_VERTICAL_SYMBOL>>, style)
        ELSE SetString(Right(rect) - 1, rect.y + 1 + (i - 1) \div 2,
                       <<FRAME_VERTICAL_SYMBOL>>, style)]

RenderBoxFrame(w, rect) ==
    IF rect.width = 0 \/ rect.height = 0 THEN Done(<<>>)
    ELSE IF overflow_checks /\ ~(InU16(FillEnd(rect.width)) /\ InU16(LastRow(rect)))
    THEN Panicked(<<>>)
    ELSE LET border_style == Fg(StyleDefault, w.border_color)
             text_style == Bold(Fg(StyleDefault, w.text_color))
             top == FrameRow(FRAME_UPPER_LEFT_SYMBOL, FRAME_UPPER_RIGHT_SYMBOL, rect.width)
             bottom == FrameRow(FRAME_LOWER_LEFT_SYMBOL, FRAME_LOWER_RIGHT_SYMBOL, rect.width)
         IN  Done(<<SetString(rect.x, rect.y, top, border_style),
                    SetString(rect.x, Wrap16(LastRow(rect)), bottom, border_style)>>
                  \o FrameSides(rect, border_style)
                  \o <<SetString(rect.x + 2, rect.y, <<BLANK>>, text_style),
                       SetString(rect.x + 3, rect.y, w.label, text_style),
                       SetString(rect.x + 3 + CharsCount(w.label), rect.y, <<BLANK>>,
                                 text_style)>>)

----------------------------------------------------------------------------
(* AnyWidget::render (widgets.rs 48-60) *)

RenderWidget(w, rect) ==
    CASE w.kind = "BarChart" -> RenderBarChart(w, rect)
      [] w.kind = "BoxFrame" -> RenderBoxFrame(w, rect)
      [] w.kind = "Paragraph" -> RenderParagraph(w, rect)
      [] w.kind = "Powerline" -> RenderPowerline(w, rect)
      [] w.kind = "Scrollbar" -> RenderScrollbar(w, rect)
      [] w.kind = "SegmentedControl" -> RenderSegmentedControl(w, rect)

----------------------------------------------------------------------------
(* The background fill of Renderer::render (main.rs 759-770): one row of   *)
(* blanks as wide as the rectangle, painted as a Paragraph on each row.    *)

(* A faulty fill that stops one row short of the rectangle's bottom. *)
FillBackgroundShort(bg_color, padding_rect) ==
    LET row == [i \in 1..RangeLen(padding_rect.x, Right(padding_rect)) |-> BLANK]
    IN  Done([j \in 1..RangeLen(padding_rect.y, Bottom(padding_rect) - 1) |->
                [op |-> "paragraph",
                 rect |-> TuiRect(padding_rect.x, padding_rect.y + j - 1,
                                  padding_rect.width, 1),
                 text |-> row,
                 style |-> Bg(StyleDefault, bg_color)]])

FillBackground(bg_color, padding_rect) ==
    LET row == [i \in 1..RangeLen(padding_rect.x, Right(padding_rect)) |-> BLANK]
    IN  Done([j \in 1..RangeLen(padding_rect.y, Bottom(padding_rect)) |->
                [op |-> "paragraph",
                 rect |-> TuiRect(padding_rect.x, padding_rect.y + j - 1,
                                  padding_rect.width, 1),
                 text |-> row,
                 style |-> Bg(StyleDefault, bg_color)]])

(* A background colour bound to a node. *)
Background(color) == [kind |-> "Background", color |-> color]

----------------------------------------------------------------------------
(* Inputs of the widget specifications. *)

Colors == {"bg_color", "fg_color"}
Labels == {<<"a">>, <<"b", "c">>}
SeqsUpTo(S, n) == UNION {[1..k -> S] : k \in 0..n}

Samples == 0..MaxSample
BarCharts ==
    {BarChartNew(data, min_y, max_y, "color") :
        data \in SeqsUpTo(Samples, MaxLen), min_y \in Samples, max_y \in Samples}
BarChartAreas == {TuiRect(0, 0, width, 1) : width \in 0..1}

Scrollbars ==
    {ScrollbarNew(v[1], v[2], v[3], v[4], "color") :
        v \in (0..MaxVal) \X (0..MaxVal) \X (0..MaxVal) \X (0..MaxVal)}
ScrollbarAreas == {TuiRect(0, y, 1, height) : y \in 0..MaxPos, height \in 0..MaxDim}

SegmentedControls ==
    {SegmentedControlNew(labels, selected_index, bg_color, fg_color) :
        labels \in SeqsUpTo(Labels, MaxLabels), selected_index \in 0..(MaxLabels - 1),
        bg_color \in Colors, fg_color \in Colors}
SegmentedControlAreas == {TuiRect(x, y, MaxDim, 1) : x \in 0..MaxPos, y \in 0..MaxPos}

(* Powerlines of up to MaxLabels labels, in rectangles too narrow for     *)
(* them and in one that holds the longest of them (a label has at most    *)
(* MaxGlyphs glyphs, and two blanks and a separator go with it).          *)
MaxGlyphs == 2
Powerlines ==
    {PowerlineNew(labels, direction, main_visibility) :
        labels \in SeqsUpTo(Labels, MaxLabels),
        direction \in {"LeftToRight", "RightToLeft"},
        main_visibility \in {"Visible", "Invisible"}}
PowerlineAreas ==
    {TuiRect(x, y, width, 1) :
        x \in 0..MaxPos, y \in 0..MaxPos,
        width \in {0, MaxDim, MaxLabels * (MaxGlyphs + 3)}}

(* BoxFrames with no label and with labels, in small rectangles. *)
BoxFrames == {BoxFrameNew(label) : label \in {<<>>} \cup Labels}

(* One widget of each kind and a background, for any rectangle. *)
Palette ==
    {BarChartNew(<<4, 4, 4>>, 0, 4, "color"),
     ScrollbarNew(0, 1, 0, 1, "color"),
     SegmentedControlNew(<<<<"a">>, <<"b", "c">>>>, 0, "bg_color", "fg_color"),
     PowerlineNew(<<<<"a">>, <<"b", "c">>>>, "LeftToRight", "Visible"),
     PowerlineNew(<<<<"a">>>>, "RightToLeft", "Invisible"),
     BoxFrameNew(<<"a">>),
     Background("bg_color")}
Areas ==
    {TuiRect(x, y, width, height) :
        x \in 0..MaxPos, y \in 0..MaxPos, width \in 0..MaxDim, height \in 0..MaxDim}

----------------------------------------------------------------------------
(* The compositor at rest, for the specifications of single widgets. *)

NoLocal == [node |-> 0]
CompositorIdle ==
    /\ pc = "idle"
    /\ children = <<>>
    /\ stretch_node_to_widget = <<>>
    /\ stretch_node_to_bg_color = <<>>
    /\ calls = <<>>
    /\ visits = <<>>
    /\ location = <<>>
    /\ local = NoLocal
    /\ events = <<>>
    /\ unpainted = {}

InitWidget(widgets, areas) ==
    /\ overflow_checks \in BOOLEAN
    /\ widget \in widgets
    /\ area \in areas
    /\ out = NotRendered
    /\ wpc = "ready"
    /\ CompositorIdle

(* The end of a Widget::render call. *)
Rendered ==
    /\ wpc' = "done"
    /\ UNCHANGED <<overflow_checks, widget, area>>
    /\ UNCHANGED cvars

BarChartRender ==
    /\ wpc = "ready"
    /\ widget.kind = "BarChart"
    /\ out' = RenderBarChart(widget, area)
    /\ Rendered

ScrollbarRender ==
    /\ wpc = "ready"
    /\ widget.kind = "Scrollbar"
    /\ out' = RenderScrollbar(widget, area)
    /\ Rendered

SegmentedControlRender ==
    /\ wpc = "ready"
    /\ widget.kind = "SegmentedControl"
    /\ out' = RenderSegmentedControl(widget, area)
    /\ Rendered

PowerlineRender ==
    /\ wpc = "ready"
    /\ widget.kind = "Powerline"
    /\ out' = RenderPowerline(widget, area)
    /\ Rendered

BoxFrameRender ==
    /\ wpc = "ready"
    /\ widget.kind = "BoxFrame"
    /\ out' = RenderBoxFrame(widget, area)
    /\ Rendered

BackgroundFill ==
    /\ wpc = "ready"
    /\ widget.kind = "Background"
    /\ out' = FillBackground(widget.color, area)
    /\ Rendered

InitBarChart == InitWidget(BarCharts, BarChartAreas)
SpecBarChart == InitBarChart /\ [][BarChartRender]_vars

InitScrollbar == InitWidget(Scrollbars, ScrollbarAreas)
SpecScrollbar == InitScrollbar /\ [][ScrollbarRender]_vars

InitSegmentedControl == InitWidget(SegmentedControls, SegmentedControlAreas)
SpecSegmentedControl == InitSegmentedControl /\ [][SegmentedControlRender]_vars

InitPowerline == InitWidget(Powerlines, PowerlineAreas)
SpecPowerline == InitPowerline /\ [][PowerlineRender]_vars

InitBoxFrame == InitWidget(BoxFrames, Areas)
SpecBoxFrame == InitBoxFrame /\ [][BoxFrameRender]_vars

InitPaint == InitWidget(Palette, Areas)
NextPaint ==
    \/ BarChartRender
    \/ ScrollbarRender
    \/ SegmentedControlRender
    \/ PowerlineRender
    \/ BoxFrameRender
    \/ BackgroundFill
SpecPaint == InitPaint /\ [][NextPaint]_vars

----------------------------------------------------------------------------
(* Geometry (main.rs 800-873) *)

(* stretch::style::Dimension *)
Undefined == [unit |-> "Undefined"]
Auto == [unit |-> "Auto"]
Percent(v) == [unit |-> "Percent", value |-> v]
Points(v) == [unit |-> "Points", value |-> v]

(* Lines 867-872: `length as u16` cuts the fraction off. *)
resolve_padding_dimension(length) ==
    IF length.unit = "Points" THEN AsUnsigned(length.value, U16 - 1) ELSE 0

(* Lines 859-865. *)
resolve_padding(padding) ==
    [start |-> resolve_padding_dimension(padding.start),
     end |-> resolve_padding_dimension(padding.end),
     top |-> resolve_padding_dimension(padding.top),
     bottom |-> resolve_padding_dimension(padding.bottom)]

(* The padding styles resolve_padding is checked on: each side undefined,  *)
(* auto, a percentage, or a fixed number of tenths of a cell (the halves   *)
(* up to MaxTenths and MaxTenths itself).                                  *)
MaxTenths == 27
Tenths == {n \in 0..MaxTenths : n % 5 = 0 \/ n = MaxTenths}
FixedDimensions == {Points(Num(n, 10)) : n \in Tenths}
StyleDimensions == {Undefined, Auto, Percent(Num(1, 2))} \cup FixedDimensions
StylePaddings == [start : StyleDimensions, end : StyleDimensions,
                  top : StyleDimensions, bottom : StyleDimensions]

(* A call of resolve_padding on a style's padding. *)
PaddingCall(padding) == [kind |-> "resolve_padding", padding |-> padding]

InitPadding == InitWidget({PaddingCall(padding) : padding \in StylePaddings}, {TuiRect(0, 0, 0, 0)})

ResolvePadding ==
    /\ wpc = "ready"
    /\ widget.kind = "resolve_padding"
    /\ out' = resolve_padding(widget.padding)
    /\ Rendered

SpecPadding == InitPadding /\ [][ResolvePadding]_vars

(* Lines 804-813: Layout::to_rect rounds each f32 to a cell. *)
to_rect(layout) ==
    TuiRect(AsUnsigned(FRound(layout.location.x), U16 - 1),
            AsUnsigned(FRound(layout.location.y), U16 - 1),
            AsUnsigned(FRound(layout.size.width), U16 - 1),
            AsUnsigned(FRound(layout.size.height), U16 - 1))

----------------------------------------------------------------------------
(* The compositor (main.rs 724-798) *)

MaxNodes == 3       \* the nodes are 1..MaxNodes, node 1 the root
MaxSize == 2        \* the solver's sizes are 1 or MaxSize
MaxPad == 1         \* a padding side is undefined or MaxPad points

Nodes == 1..MaxNodes
Root == 1

(* What the solver and the styles hold for a node: read once per visit.    *)
(* WalkLayouts and WalkPaddings are the inputs of the specification of the *)
(* whole walk, Layouts and Paddings those of the specification of one      *)
(* node's geometry.                                                        *)
Layouts ==
    {[location |-> [x |-> Num(x, 1), y |-> Num(y, 1)],
      size |-> [width |-> Num(width, 1), height |-> Num(height, 1)]] :
        x \in {0, MaxPos}, y \in {0, MaxPos},
        width \in {1, MaxSize}, height \in {1, MaxSize}}
PaddingDimensions == {Undefined, Points(Num(MaxPad, 1))}
Paddings == [start : PaddingDimensions, end : PaddingDimensions,
             top : PaddingDimensions, bottom : PaddingDimensions]
WalkLayouts ==
    {layout \in Layouts :
        layout.size.width = Num(MaxSize, 1) /\ layout.size.height = Num(MaxSize, 1)}
WalkPaddings ==
    {padding \in Paddings :
        padding.end = padding.start /\ padding.top = padding.start
        /\ padding.bottom = padding.start}

(* The widgets bound in the compositor's specification. *)
BoundWidgets == {ParagraphNew(<<"a">>, StyleDefault), ScrollbarNew(0, 1, 0, 1, "color")}

(* The trees on the nodes: every node but the root has a parent of lower   *)
(* number; children in node order.  Every node is a node of the tree.      *)
Parents ==
    {parent \in [Nodes -> 0..MaxNodes] :
        /\ parent[Root] = 0
        /\ \A n \in Nodes \ {Root} : parent[n] >= 1 /\ parent[n] < n}
RECURSIVE KidsFrom(_, _, _)
KidsFrom(parent, n, k) ==
    IF k > MaxNodes THEN <<>>
    ELSE (IF parent[k] = n THEN <<k>> ELSE <<>>) \o KidsFrom(parent, n, k + 1)
ChildrenOf(parent) == [n \in Nodes |-> KidsFrom(parent, n, n + 1)]

(* The nodes of the tree under the root. *)
RECURSIVE SeqToSet(_)
SeqToSet(q) == IF q = <<>> THEN {} ELSE {Head(q)} \cup SeqToSet(Tail(q))
TreeNodes == {Root} \cup UNION {SeqToSet(children[n]) : n \in Nodes}

(* HashMap::insert and HashMap::remove on a map kept as a function. *)
Insert(map, key, value) ==
    [k \in DOMAIN map \cup {key} |-> IF k = key THEN value ELSE map[k]]
(* A faulty remove that leaves the binding in the map. *)
RemoveNothing(map, key) == map
Remove(map, key) == [k \in DOMAIN map \ {key} |-> map[k]]

NoWidget == [kind |-> "none"]
NoRect == TuiRect(0, 0, 0, 0)

(* Renderer::new (lines 730-735) and the tree the caller declared. *)
InitRenderer(trees) ==
    /\ overflow_checks \in BOOLEAN
    /\ pc = "build"
    /\ children \in trees
    /\ stretch_node_to_widget = <<>>
    /\ stretch_node_to_bg_color = <<>>
    /\ calls = <<>>
    /\ visits = [n \in Nodes |-> 0]
    /\ location = [n \in Nodes |-> "unread"]
    /\ local = NoLocal
    /\ events = <<>>
    /\ unpainted = {}
    /\ widget = NoWidget
    /\ area = NoRect
    /\ out = NotRendered
    /\ wpc = "ready"

Trees == {ChildrenOf(parent) : parent \in Parents}
(* The tree of the root and one child; no other node is declared. *)
Chain == [n \in Nodes |-> IF n = Root THEN <<Root + 1>> ELSE <<>>]

Init == InitRenderer(Trees)
InitGeometry == InitRenderer({Chain})

(* Renderer::build_node (lines 737-742); the handles the caller holds are  *)
(* nodes of the tree.                                                      *)
build_node(node, w) ==
    /\ pc = "build"
    /\ node \in TreeNodes
    /\ stretch_node_to_widget' = Insert(stretch_node_to_widget, node, w)
    /\ unpainted' = unpainted \cup {[kind |-> "widget", node |-> node]}
    /\ UNCHANGED <<overflow_checks, widget, area, out, wpc, pc, children,
                   stretch_node_to_bg_color, calls, visits, location, local, events>>

(* A background colour bound to a node: an insert into the map of line 726. *)
bind_bg_color(node, color) ==
    /\ pc = "build"
    /\ node \in TreeNodes
    /\ stretch_node_to_bg_color' = Insert(stretch_node_to_bg_color, node, color)
    /\ unpainted' = unpainted \cup {[kind |-> "bg", node |-> node]}
    /\ UNCHANGED <<overflow_checks, widget, area, out, wpc, pc, children,
                   stretch_node_to_widget, calls, visits, location, local, events>>

(* The call of line 393: render the root at the origin. *)
StartRender ==
    /\ pc = "build"
    /\ pc' = "render"
    /\ calls' = <<[node |-> Root, world_position |-> [x |-> 0, y |-> 0]]>>
    /\ UNCHANGED <<overflow_checks, widget, area, out, wpc, children,
                   stretch_node_to_widget, stretch_node_to_bg_color, visits,
                   location, local, events, unpainted>>

(* Lines 754-757: the node's rectangle moved to the world position. *)
PaddingRect(local_rect, world_position) ==
    [local_rect EXCEPT !.x = @ + world_position.x, !.y = @ + world_position.y]

(* Lines 774-778, each u16 result before it is reduced. *)
ContentX(padding_rect, local_padding) == padding_rect.x + local_padding.start
ContentY(padding_rect, local_padding) == padding_rect.y + local_padding.top
ContentWidth(padding_rect, local_padding) ==
    padding_rect.width - (local_padding.start + local_padding.end)
ContentHeight(padding_rect, local_padding) ==
    padding_rect.height - (local_padding.top + local_padding.bottom)

(* The content rectangle, and whether computing it overflowed. *)
ContentRect(padding_rect, local_padding) ==
    LET x == ContentX(padding_rect, local_padding)
        y == ContentY(padding_rect, local_padding)
        width == ContentWidth(padding_rect, local_padding)
        height == ContentHeight(padding_rect, local_padding)
    IN  [rect |-> TuiRect(Wrap16(x), Wrap16(y), Wrap16(width), Wrap16(height)),
         overflowed |-> ~(InU16(x) /\ InU16(y) /\ InU16(width) /\ InU16(height))]

(* Lines 744-781: one call of Renderer::render up to its recursion.  The   *)
(* layout and the style are what stretch holds for the node.               *)
RenderNode(layout, padding) ==
    LET node == Head(calls).node
        world_position == Head(calls).world_position
        local_padding == resolve_padding(padding)
        padding_rect == PaddingRect(to_rect(layout), world_position)
        has_bg == node \in DOMAIN stretch_node_to_bg_color
        fill == IF has_bg
                THEN FillBackground(stretch_node_to_bg_color[node], padding_rect)
                ELSE NotRendered
        has_widget == node \in DOMAIN stretch_node_to_widget
        content == ContentRect(padding_rect, local_padding)
        reached == has_widget /\ ~(content.overflowed /\ overflow_checks)
        paints == (IF has_bg THEN <<[kind |-> "bg", node |-> node]>> ELSE <<>>)
                  \o (IF reached THEN <<[kind |-> "widget", node |-> node]>> ELSE <<>>)
        painted == IF reached
                   THEN RenderWidget(stretch_node_to_widget[node], content.rect)
                   ELSE NotRendered
        failed == has_widget /\ (~reached \/ painted.failed)
    IN  /\ pc = "render"
        /\ local = NoLocal
        /\ calls # <<>>
        /\ calls' = Tail(calls)
        /\ visits' = [visits EXCEPT ![node] = @ + 1]
        /\ location' = [location EXCEPT ![node] = [x |-> to_rect(layout).x,
                                                     y |-> to_rect(layout).y]]
        /\ stretch_node_to_bg_color' = Remove(stretch_node_to_bg_color, node)
        /\ stretch_node_to_widget' = Remove(stretch_node_to_widget, node)
        /\ local' = [node |-> node, padding_rect |-> padding_rect,
                     local_padding |-> local_padding,
                     bg_color |-> IF has_bg THEN stretch_node_to_bg_color[node] ELSE "none",
                     fill |-> fill]
        /\ widget' = IF has_widget THEN stretch_node_to_widget[node] ELSE NoWidget
        /\ area' = IF reached THEN content.rect ELSE NoRect
        /\ out' = IF failed /\ ~reached THEN Panicked(<<>>) ELSE painted
        /\ wpc' = IF reached THEN "done" ELSE "ready"
        /\ events' = events \o paints
        /\ unpainted' = unpainted \ SeqToSet(paints)
        /\ pc' = IF failed THEN "panic" ELSE "render"
        /\ UNCHANGED <<overflow_checks, children>>

Render == \E layout \in WalkLayouts, padding \in WalkPaddings : RenderNode(layout, padding)
RenderGeometry == \E layout \in Layouts, padding \in Paddings : RenderNode(layout, padding)

(* A faulty recursion that hands the kids the corner of the content       *)
(* rectangle, inside the padding.                                          *)
RecurFromContent ==
    /\ pc = "render"
    /\ local # NoLocal
    /\ LET kids == children[local.node]
           kid_calls == [i \in 1..Len(kids) |->
                            [node |-> kids[i],
                             world_position |->
                                [x |-> local.padding_rect.x + local.local_padding.start,
                                 y |-> local.padding_rect.y + local.local_padding.top]]]
       IN  /\ calls' = kid_calls \o calls
           /\ pc' = IF kid_calls \o calls = <<>> THEN "done" ELSE "render"
    /\ local' = NoLocal
    /\ widget' = NoWidget
    /\ area' = NoRect
    /\ out' = NotRendered
    /\ wpc' = "ready"
    /\ UNCHANGED <<overflow_checks, children, stretch_node_to_widget,
                   stretch_node_to_bg_color, visits, location, events, unpainted>>

(* A faulty recursion that visits the kids last to first. *)
RecurLastKidFirst ==
    /\ pc = "render"
    /\ local # NoLocal
    /\ LET kids == children[local.node]
           kid_calls == [i \in 1..Len(kids) |->
                            [node |-> kids[Len(kids) + 1 - i],
                             world_position |-> [x |-> local.padding_rect.x,
                                                 y |-> local.padding_rect.y]]]
       IN  /\ calls' = kid_calls \o calls
           /\ pc' = IF kid_calls \o calls = <<>> THEN "done" ELSE "render"
    /\ local' = NoLocal
    /\ widget' = NoWidget
    /\ area' = NoRect
    /\ out' = NotRendered
    /\ wpc' = "ready"
    /\ UNCHANGED <<overflow_checks, children, stretch_node_to_widget,
                   stretch_node_to_bg_color, visits, location, events, unpainted>>

(* Lines 783-796: the calls for the kids, each at the padding rectangle's  *)
(* corner, run before anything the callers still have to do.               *)
Recur ==
    /\ pc = "render"
    /\ local # NoLocal
    /\ LET kids == children[local.node]
           kid_calls == [i \in 1..Len(kids) |->
                            [node |-> kids[i],
                             world_position |-> [x |-> local.padding_rect.x,
                                                 y |-> local.padding_rect.y]]]
       IN  /\ calls' = kid_calls \o calls
           /\ pc' = IF kid_calls \o calls = <<>> THEN "done" ELSE "render"
    /\ local' = NoLocal
    /\ widget' = NoWidget
    /\ area' = NoRect
    /\ out' = NotRendered
    /\ wpc' = "ready"
    /\ UNCHANGED <<overflow_checks, children, stretch_node_to_widget,
                   stretch_node_to_bg_color, visits, location, events, unpainted>>

BuildNode == \E node \in Nodes, w \in BoundWidgets : build_node(node, w)
BindBgColor == \E node \in Nodes : bind_bg_color(node, "bg_color")

Next ==
    \/ BuildNode
    \/ BindBgColor
    \/ StartRender
    \/ Render
    \/ Recur

Spec == Init /\ [][Next]_vars

NextGeometry ==
    \/ BuildNode
    \/ BindBgColor
    \/ StartRender
    \/ RenderGeometry
    \/ Recur

SpecGeometry == InitGeometry /\ [][NextGeometry]_vars

(* Renderer::render takes &mut self and hands the Renderer back when the   *)
(* call on the root returns (line 797): the caller may bind again and      *)
(* render again.  A Renderer is rendered at most MaxPasses times.          *)
MaxPasses == 2

ReturnToCaller ==
    /\ pc = "done"
    /\ visits[Root] < MaxPasses
    /\ pc' = "build"
    /\ UNCHANGED <<overflow_checks, widget, area, out, wpc, children,
                   stretch_node_to_widget, stretch_node_to_bg_color, calls,
                   visits, location, local, events, unpainted>>

InitPasses == InitRenderer({Chain})

NextPasses ==
    \/ BuildNode
    \/ BindBgColor
    \/ StartRender
    \/ Render
    \/ Recur
    \/ ReturnToCaller

SpecPasses == InitPasses /\ [][NextPasses]_vars

----------------------------------------------------------------------------
(* Claims about the primitive widgets. *)

WidgetDone(kind) == wpc = "done" /\ widget.kind = kind
ZeroArea(rect) == rect.width = 0 \/ rect.height = 0

(* C3: painting any primitive widget, or the background fill, into a       *)
(* rectangle of width 0 or height 0 writes no cell and does not fail.      *)
C3_ZeroAreaPaintsNothing ==
    (wpc = "done" /\ ZeroArea(area)) => (~out.failed /\ NoCellWritten(out))

(* The glyph string of a rendered BarChart. *)
BarChartGlyphs == out.writes[1].text
HeightOf(i) == BarHeight(widget.data[i], widget.min_y, widget.max_y)
NibbleOf(i) == (2 ^ HeightOf(i)) - 1

(* C4: BarChart rendering of N samples emits exactly ceil(N/2) glyphs.     *)
C4_GlyphCountIsCeilHalf ==
    WidgetDone("BarChart") => Len(BarChartGlyphs) = (Len(widget.data) + 1) \div 2

(* C5: each complete pair of samples (2p+1, 2p+2) yields one glyph, the    *)
(* p+1st, whose mask holds the two samples' bit runs in its two nibbles;   *)
(* data [4,4] with min 0 and max 4 yields exactly the one glyph of mask    *)
(* 0xFF.                                                                   *)
C5_PairGlyphHoldsBothNibbles ==
    WidgetDone("BarChart") =>
        /\ \A p \in 0..((Len(widget.data) \div 2) - 1) :
              /\ Len(BarChartGlyphs) >= p + 1
              /\ BarChartGlyphs[p + 1] \in
                    {DOTS(NibbleOf(2 * p + 1) * 16 + NibbleOf(2 * p + 2)),
                     DOTS(NibbleOf(2 * p + 2) * 16 + NibbleOf(2 * p + 1))}
        /\ (widget.data = <<4, 4>> /\ widget.min_y = 0 /\ widget.max_y = 4)
              => BarChartGlyphs = <<DOTS(255)>>

(* C6: with max == min every sample has height 0 (every glyph is the       *)
(* blank one) and rendering does not fail.                                 *)
C6_DegenerateRangeHeightZero ==
    (WidgetDone("BarChart") /\ widget.min_y = widget.max_y) =>
        /\ ~out.failed
        /\ \A i \in 1..Len(widget.data) : HeightOf(i) = 0
        /\ \A g \in 1..Len(BarChartGlyphs) : BarChartGlyphs[g] = DOTS(0)

(* The rows of the track loop of a rendered Scrollbar that hold the thumb. *)
ThumbRows(o) ==
    {r \in o.writes[2].from..(o.writes[2].to - 1) : TrackGlyph(o.writes[2], r) = THUMB}
ScrollbarStyle == Fg(StyleDefault, widget.color)

(* C8: with height >= 2, minVal = minRange and maxVal = maxRange           *)
(* (minRange < maxRange) the up indicator is on the first row, the down    *)
(* indicator on the last, and every one of the height-2 rows between them  *)
(* holds the thumb glyph.                                                  *)
C8_FullRangeFillsTrack ==
    (/\ WidgetDone("Scrollbar")
     /\ area.height >= 2
     /\ widget.min_range < widget.max_range
     /\ widget.min_val = widget.min_range
     /\ widget.max_val = widget.max_range) =>
        /\ ~out.failed
        /\ Len(out.writes) = 3
        /\ out.writes[1] = SetString(area.x, area.y, <<SCROLLBAR_UP_SYMBOL>>, ScrollbarStyle)
        /\ out.writes[3] = SetString(area.x, area.y + area.height - 1,
                                     <<SCROLLBAR_DOWN_SYMBOL>>, ScrollbarStyle)
        /\ out.writes[2].op = "track"
        /\ out.writes[2].x = area.x
        /\ ThumbRows(out) = (area.y + 1)..(area.y + area.height - 2)

C8_Witness ==
    /\ WidgetDone("Scrollbar")
    /\ area.height = 4
    /\ widget.min_range = 1 /\ widget.max_range = 3
    /\ widget.min_val = 1 /\ widget.max_val = 3
    /\ ThumbRows(out) = {area.y + 1, area.y + 2}

(* C9 as claimed: for minVal < maxVal and minRange < maxRange at least one *)
(* track row holds the thumb glyph (stated for the heights that have an up *)
(* and a down row).                                                        *)
C9_Original ==
    (/\ WidgetDone("Scrollbar")
     /\ area.height >= 2
     /\ widget.min_range < widget.max_range
     /\ widget.min_val < widget.max_val) =>
        (~out.failed /\ ThumbRows(out) # {})

(* C9 as amended: for height >= 3, minRange < maxRange, minVal < maxVal    *)
(* and minVal < maxRange at least one track row holds the thumb glyph.     *)
C9_ThumbRowExists ==
    (/\ WidgetDone("Scrollbar")
     /\ area.height >= 3
     /\ widget.min_range < widget.max_range
     /\ widget.min_val < widget.max_val
     /\ widget.min_val < widget.max_range) =>
        (~out.failed /\ ThumbRows(out) # {})

C9_Witness ==
    /\ WidgetDone("Scrollbar")
    /\ area.height = 3
    /\ widget.min_range = 0 /\ widget.max_range = 3
    /\ widget.min_val = 2 /\ widget.max_val = 3
    /\ ThumbRows(out) = {area.y + 1}

(* The two caps of a rendered SegmentedControl. *)
LeftCap == out.writes[1]
RightCap == out.writes[Len(out.writes)]
CapColor(selected) == IF selected THEN widget.fg_color ELSE widget.bg_color

(* C10: with N >= 1 labels and selected index s in [0,N) the left cap's    *)
(* foreground is the selected colour exactly when s = 0 and the right      *)
(* cap's exactly when s = N-1; otherwise it is the unselected background   *)
(* colour.  Neither cap has a background.                                  *)
C10_CapsFollowSelection ==
    (/\ WidgetDone("SegmentedControl")
     /\ Len(widget.labels) >= 1
     /\ widget.selected_index < Len(widget.labels)) =>
        /\ ~out.failed
        /\ LeftCap = SetString(area.x, area.y, <<LEFT_CAP>>,
                               Fg(StyleDefault, CapColor(widget.selected_index = 0)))
        /\ RightCap.text = <<RIGHT_CAP>>
        /\ RightCap.style =
              Fg(StyleDefault, CapColor(widget.selected_index = Len(widget.labels) - 1))

C10_Witness ==
    /\ WidgetDone("SegmentedControl")
    /\ Len(widget.labels) = 3
    /\ widget.selected_index = 0
    /\ widget.fg_color # widget.bg_color
    /\ LeftCap.style.fg = widget.fg_color
    /\ RightCap.style.fg = widget.bg_color

----------------------------------------------------------------------------
(* Claims about the compositor. *)

(* A visit of Renderer::render has run up to its recursion. *)
Visited == pc \in {"render", "panic"} /\ local # NoLocal

(* C1: after one compositing pass on the root of the tree, with every      *)
(* binding keyed by a node of the tree, every node of the tree has been    *)
(* visited exactly once and neither the widget map nor the background      *)
(* colour map holds a binding.                                             *)
C1_PassVisitsOnceAndEmptiesRegistry ==
    pc = "done" =>
        /\ \A n \in TreeNodes : visits[n] = 1
        /\ DOMAIN stretch_node_to_widget = {}
        /\ DOMAIN stretch_node_to_bg_color = {}

C1_Witness ==
    /\ pc = "done"
    /\ TreeNodes = Nodes
    /\ \E n \in Nodes : Len(children[n]) = 2
    /\ \A n \in Nodes : visits[n] = 1
    /\ \A n \in Nodes :
          \E i, j \in 1..Len(events) :
              /\ events[i] = [kind |-> "bg", node |-> n]
              /\ events[j] = [kind |-> "widget", node |-> n]

(* The resolved padding of the visited node exceeds its rectangle. *)
ExceedsWidth ==
    local.local_padding.start + local.local_padding.end > local.padding_rect.width
ExceedsHeight ==
    local.local_padding.top + local.local_padding.bottom > local.padding_rect.height

(* C2: when a widget is bound to a node whose resolved padding exceeds the *)
(* node's rectangle, the compositor reaches the widget with a content      *)
(* rectangle whose width (height) is 0 in the exceeded dimension; it does  *)
(* not fail and the dimension does not wrap around.                        *)
C2_ExceedingPaddingGivesZero ==
    (Visited /\ widget # NoWidget /\ (ExceedsWidth \/ ExceedsHeight)) =>
        /\ wpc = "done"
        /\ ExceedsWidth => area.width = 0
        /\ ExceedsHeight => area.height = 0

(* The cells of a rectangle. *)
RectCells(rect) ==
    {<<x, y>> : x \in rect.x..(Right(rect) - 1), y \in rect.y..(Bottom(rect) - 1)}

(* A write of blanks on the given background. *)
BlankIn(wr, color) ==
    /\ wr.style = Bg(StyleDefault, color)
    /\ \A i \in 1..Len(wr.text) : wr.text[i] = BLANK

(* C7: when a background colour is bound to a node the compositor fills    *)
(* every cell of the node's absolute padding rectangle, and no other cell, *)
(* with a blank in that colour, whether or not a widget is bound to the    *)
(* node too and whatever the node's padding.                               *)
C7_BackgroundCoversPaddingRect ==
    (Visited /\ local.bg_color # "none") =>
        /\ ~local.fill.failed
        /\ CellsWritten(local.fill) = RectCells(local.padding_rect)
        /\ \A i \in 1..Len(local.fill.writes) :
              BlankIn(local.fill.writes[i], local.bg_color)

C7_Witness ==
    /\ Visited
    /\ local.node # Root
    /\ local.bg_color # "none"
    /\ widget # NoWidget
    /\ local.padding_rect.x > MaxPos
    /\ local.padding_rect.width > 1
    /\ local.padding_rect.height > 1
    /\ local.local_padding.start > 0
    /\ local.local_padding.bottom > 0
    /\ local.local_padding.top = 0
    /\ Len(local.fill.writes) = local.padding_rect.height

----------------------------------------------------------------------------
(* Claims about the layout of the SegmentedControl strip. *)

(* The number of glyphs of a sequence of labels, and of a list of writes. *)
RECURSIVE GlyphSum(_)
GlyphSum(labels) ==
    IF labels = <<>> THEN 0 ELSE CharsCount(Head(labels)) + GlyphSum(Tail(labels))
RECURSIVE WrittenGlyphs(_)
WrittenGlyphs(writes) ==
    IF writes = <<>> THEN 0 ELSE Len(Head(writes).text) + WrittenGlyphs(Tail(writes))

(* The write of the i-th label, and the writes of a blank between it and  *)
(* the write of the next label.                                            *)
IsLabelWrite(k) == out.writes[k].text \notin {<<BLANK>>, <<LEFT_CAP>>, <<RIGHT_CAP>>}
LabelWriteAt(i) ==
    CHOOSE k \in 1..Len(out.writes) :
        IsLabelWrite(k) /\ Cardinality({j \in 1..k : IsLabelWrite(j)}) = i
BlanksBetween(i) ==
    {k \in (LabelWriteAt(i) + 1)..(LabelWriteAt(i + 1) - 1) :
        out.writes[k].text = <<BLANK>>}

(* C11: SegmentedControl places exactly one blank cell between each two    *)
(* adjacent labels, so the strip of N >= 1 labels occupies                 *)
(* 2 + (sum of label glyph counts) + (N-1) cells.                          *)
C11_OneBlankBetweenLabels ==
    (WidgetDone("SegmentedControl") /\ Len(widget.labels) >= 1) =>
        /\ ~out.failed
        /\ WrittenGlyphs(out.writes)
              = 2 + GlyphSum(widget.labels) + (Len(widget.labels) - 1)
        /\ RightCap.x + 1 - area.x
              = 2 + GlyphSum(widget.labels) + (Len(widget.labels) - 1)
        /\ \A i \in 1..(Len(widget.labels) - 1) : Cardinality(BlanksBetween(i)) = 1

----------------------------------------------------------------------------
(* Claims about Powerline. *)

(* The same Powerline in the other direction. *)
Reversed(w) ==
    [w EXCEPT !.direction = IF @ = "LeftToRight" THEN "RightToLeft" ELSE "LeftToRight"]

(* The cells a Powerline needs: for each label its glyphs, two blanks and  *)
(* a separator.                                                            *)
PowerlineCells(w) == GlyphSum(w.labels) + 3 * Len(w.labels)

(* How far the cursor of a rendered Powerline went from where it started   *)
(* (u16 arithmetic): forward to the end of the last write, or back to its  *)
(* start.                                                                  *)
CursorTravel(w, rect, o) ==
    IF o.writes = <<>> THEN 0
    ELSE LET last == o.writes[Len(o.writes)]
         IN  IF w.direction = "LeftToRight"
             THEN (last.x + Len(last.text) - rect.x) % U16
             ELSE (Right(rect) - last.x) % U16

(* C12: a Powerline rendered left to right and the same labels rendered    *)
(* right to left consume the same number of cells, the sum over the labels *)
(* of glyph count + 2 blanks + 1 separator; the distance the cursor        *)
(* travels does not depend on the direction.                               *)
C12_DirectionInvariantWidth ==
    WidgetDone("Powerline") =>
        LET other == RenderPowerline(Reversed(widget), area)
        IN  /\ ~out.failed /\ ~other.failed
            /\ WrittenGlyphs(out.writes) = PowerlineCells(widget)
            /\ WrittenGlyphs(other.writes) = PowerlineCells(widget)
            /\ CursorTravel(widget, area, out) = PowerlineCells(widget)
            /\ CursorTravel(Reversed(widget), area, other) = PowerlineCells(widget)

(* The last write of a rendered Powerline: the separator after the last    *)
(* label.                                                                  *)
LastSeparator == out.writes[Len(out.writes)]

(* C13: for every non-empty label list and either main visibility, the     *)
(* separator written after the last label is the terminating glyph, its    *)
(* foreground the last segment's background colour, with no background     *)
(* colour, also for lists of one or two labels.                            *)
C13_TrailingSeparatorHasNoFill ==
    (WidgetDone("Powerline") /\ Len(widget.labels) >= 1 /\ ~out.failed) =>
        /\ LastSeparator.text = <<SeparatorLabel(FALSE, widget.direction)>>
        /\ LastSeparator.style.fg = PowerlineStyle(widget, Len(widget.labels) - 1).bg
        /\ LastSeparator.style.bg = StyleDefault.bg

----------------------------------------------------------------------------
(* Claims about BoxFrame. *)

(* How often glyph g occurs in the texts of a list of writes. *)
RECURSIVE GlyphsOf(_, _)
GlyphsOf(g, writes) ==
    IF writes = <<>> THEN 0
    ELSE Cardinality({i \in 1..Len(Head(writes).text) : Head(writes).text[i] = g})
         + GlyphsOf(g, Tail(writes))

FrameCorners ==
    {FRAME_UPPER_LEFT_SYMBOL, FRAME_UPPER_RIGHT_SYMBOL, FRAME_LOWER_RIGHT_SYMBOL,
     FRAME_LOWER_LEFT_SYMBOL}

(* The writes of a rendered BoxFrame whose one glyph is the vertical one,  *)
(* in column x.                                                            *)
VerticalsAt(x) ==
    {k \in 1..Len(out.writes) :
        out.writes[k].text = <<FRAME_VERTICAL_SYMBOL>> /\ out.writes[k].x = x}

(* C14: a BoxFrame rendered into a rectangle of width w >= 2 and height    *)
(* h >= 2 draws exactly 4 corner glyphs, w-2 horizontal glyphs on each of  *)
(* the top and the bottom row and h-2 vertical glyphs on each side; for    *)
(* w = 2, h = 2 that is 4 corners and no edge glyph; no length underflows. *)
C14_FrameGlyphCounts ==
    (WidgetDone("BoxFrame") /\ area.width >= 2 /\ area.height >= 2) =>
        /\ ~out.failed
        /\ \A c \in FrameCorners : GlyphsOf(c, out.writes) = 1
        /\ out.writes[1].y = area.y
        /\ out.writes[1].text[1] = FRAME_UPPER_LEFT_SYMBOL
        /\ out.writes[1].text[Len(out.writes[1].text)] = FRAME_UPPER_RIGHT_SYMBOL
        /\ GlyphsOf(FRAME_HORIZONTAL_SYMBOL, <<out.writes[1]>>) = area.width - 2
        /\ Len(out.writes[1].text) = area.width
        /\ out.writes[2].y = area.y + area.height - 1
        /\ out.writes[2].text[1] = FRAME_LOWER_LEFT_SYMBOL
        /\ out.writes[2].text[Len(out.writes[2].text)] = FRAME_LOWER_RIGHT_SYMBOL
        /\ GlyphsOf(FRAME_HORIZONTAL_SYMBOL, <<out.writes[2]>>) = area.width - 2
        /\ Len(out.writes[2].text) = area.width
        /\ GlyphsOf(FRAME_HORIZONTAL_SYMBOL, out.writes) = 2 * (area.width - 2)
        /\ Cardinality(VerticalsAt(area.x)) = area.height - 2
        /\ Cardinality(VerticalsAt(area.x + area.width - 1)) = area.height - 2
        /\ GlyphsOf(FRAME_VERTICAL_SYMBOL, out.writes) = 2 * (area.height - 2)
        /\ \A k \in VerticalsAt(area.x) \cup VerticalsAt(area.x + area.width - 1) :
              out.writes[k].y > area.y /\ out.writes[k].y < area.y + area.height - 1

C14_Witness ==
    /\ WidgetDone("BoxFrame")
    /\ area.width = 2 /\ area.height = 2
    /\ ~out.failed
    /\ out.writes[1].text = <<FRAME_UPPER_LEFT_SYMBOL, FRAME_UPPER_RIGHT_SYMBOL>>
    /\ out.writes[2].text = <<FRAME_LOWER_LEFT_SYMBOL, FRAME_LOWER_RIGHT_SYMBOL>>
    /\ GlyphsOf(FRAME_HORIZONTAL_SYMBOL, out.writes) = 0
    /\ GlyphsOf(FRAME_VERTICAL_SYMBOL, out.writes) = 0

(* C19: a BoxFrame rendered into a rectangle of width 1 or height 1 (the   *)
(* other dimension >= 1) computes its fill lengths without underflow: the  *)
(* fill loop of that dimension runs zero times and the render completes.   *)
C19_DegenerateFrameNoUnderflow ==
    (/\ WidgetDone("BoxFrame")
     /\ area.width >= 1 /\ area.height >= 1
     /\ (area.width = 1 \/ area.height = 1)) =>
        /\ ~out.failed
        /\ InU16(FillEnd(area.width)) /\ InU16(LastRow(area))
        /\ area.width = 1 => GlyphsOf(FRAME_HORIZONTAL_SYMBOL, out.writes) = 0
        /\ area.height = 1 => GlyphsOf(FRAME_VERTICAL_SYMBOL, out.writes) = 0

C19_Witness ==
    /\ WidgetDone("BoxFrame")
    /\ overflow_checks
    /\ area.width = 1 /\ area.height = 1
    /\ ~out.failed
    /\ Len(out.writes) = 5
    /\ out.writes[1].text = <<FRAME_UPPER_LEFT_SYMBOL, FRAME_UPPER_RIGHT_SYMBOL>>

----------------------------------------------------------------------------
(* Claims about the geometry resolver. *)

Sides == {"start", "end", "top", "bottom"}

(* The nearest integer to a value v >= 0, halves going up. *)
Nearest(v) == (2 * v.n + v.d) \div (2 * v.d)

(* C15: resolve_padding returns 0 for every side whose unit is not fixed   *)
(* (auto, undefined, percent), and round(v), the nearest integer, for a    *)
(* fixed side of value v >= 0: 1.5 resolves to 2 and 2.7 to 3.             *)
C15_FixedPaddingIsRounded ==
    (wpc = "done" /\ widget.kind = "resolve_padding") =>
        \A side \in Sides :
            LET length == widget.padding[side]
            IN  IF length.unit = "Points"
                THEN out[side] = Nearest(length.value)
                ELSE out[side] = 0

----------------------------------------------------------------------------
(* Claims about the compositor's walk. *)

(* The parent of a node of the tree (0 for the root), and the sum of the   *)
(* solver's (x, y) of a visited node and of all its ancestors.             *)
ParentOf(n) ==
    IF \E p \in Nodes : n \in SeqToSet(children[p])
    THEN CHOOSE p \in Nodes : n \in SeqToSet(children[p])
    ELSE 0
RECURSIVE AbsoluteOf(_)
AbsoluteOf(n) ==
    IF n = 0 THEN [x |-> 0, y |-> 0]
    ELSE [x |-> location[n].x + AbsoluteOf(ParentOf(n)).x,
          y |-> location[n].y + AbsoluteOf(ParentOf(n)).y]

(* C16: each child is visited with origin the parent's absolute padding    *)
(* rectangle's top-left corner, not offset by the parent's padding, so a   *)
(* node's absolute padding rectangle, where its background is painted, is  *)
(* at the world origin plus the sum of the solver's (x, y) of the node and *)
(* of all its ancestors; the widget is painted there too, moved in by the  *)
(* node's own padding only.                                                *)
C16_AbsolutePositionIsSumOfLocations ==
    /\ \A i \in 1..Len(calls) :
          calls[i].world_position = AbsoluteOf(ParentOf(calls[i].node))
    /\ Visited =>
          /\ local.padding_rect.x = AbsoluteOf(local.node).x
          /\ local.padding_rect.y = AbsoluteOf(local.node).y
          /\ \A i \in 1..Len(local.fill.writes) :
                /\ local.fill.writes[i].rect.x = AbsoluteOf(local.node).x
                /\ local.fill.writes[i].rect.y = AbsoluteOf(local.node).y + i - 1
          /\ wpc = "done" =>
                /\ area.x = AbsoluteOf(local.node).x + local.local_padding.start
                /\ area.y = AbsoluteOf(local.node).y + local.local_padding.top

C16_Witness ==
    /\ Visited
    /\ ParentOf(local.node) # 0
    /\ ParentOf(ParentOf(local.node)) # 0
    /\ \A n \in Nodes : location[n] = [x |-> MaxPos, y |-> MaxPos]
    /\ local.padding_rect.x = 3 * MaxPos
    /\ local.padding_rect.y = 3 * MaxPos
    /\ local.local_padding.start > 0
    /\ local.bg_color # "none"
    /\ wpc = "done"

(* The nodes of the subtree under n in pre-order, and a node's place in    *)
(* the pre-order of the tree.                                              *)
RECURSIVE PreOrder(_)
RECURSIVE PreOrderAll(_)
PreOrder(n) == <<n>> \o PreOrderAll(children[n])
PreOrderAll(kids) ==
    IF kids = <<>> THEN <<>> ELSE PreOrder(Head(kids)) \o PreOrderAll(Tail(kids))
PlaceOf(n) == CHOOSE i \in 1..Len(PreOrder(Root)) : PreOrder(Root)[i] = n

(* A paint event's place: the node's place, the background before the      *)
(* widget.                                                                 *)
EventPlace(e) == 2 * PlaceOf(e.node) + (IF e.kind = "widget" THEN 1 ELSE 0)
EventsOf(n) == {i \in 1..Len(events) : events[i].node = n}

(* C17: the paint events of a pass are in pre-order: a node's background   *)
(* fill precedes its widget paint, both precede every paint of its         *)
(* descendants, and siblings' subtrees are painted in tree order; a node   *)
(* with no registry entry paints nothing and its children are visited all  *)
(* the same.                                                               *)
C17_PaintsInPreOrder ==
    /\ \A i, j \in 1..Len(events) : i < j => EventPlace(events[i]) < EventPlace(events[j])
    /\ Visited =>
          /\ (local.bg_color # "none") <=>
                (\E i \in EventsOf(local.node) : events[i].kind = "bg")
          /\ (wpc = "done") <=>
                (\E i \in EventsOf(local.node) : events[i].kind = "widget")
          /\ (local.bg_color = "none" /\ widget = NoWidget) => EventsOf(local.node) = {}
    /\ \A i \in 1..Len(calls) :
          calls[i].node = Root \/ visits[ParentOf(calls[i].node)] = 1
    /\ pc = "done" => \A n \in TreeNodes : visits[n] = 1

C17_Witness ==
    /\ pc = "done"
    /\ children[Root] = <<2>> /\ children[2] = <<3>>
    /\ EventsOf(2) = {}
    /\ events = <<[kind |-> "bg", node |-> Root], [kind |-> "widget", node |-> Root],
                  [kind |-> "bg", node |-> 3], [kind |-> "widget", node |-> 3]>>
    /\ \A n \in Nodes : visits[n] = 1

(* The cell interval [from, to) one write of a Powerline covers. *)
WriteFrom(k) == out.writes[k].x
WriteTo(k) == out.writes[k].x + Len(out.writes[k].text)

(* The texts Powerline writes for its labels, in order: for each label a   *)
(* blank, the label and a blank, then a one-glyph separator.               *)
RECURSIVE PowerlineTexts(_)
PowerlineTexts(labels) ==
    IF labels = <<>> THEN <<>>
    ELSE <<1, CharsCount(Head(labels)), 1, 1>> \o PowerlineTexts(Tail(labels))

(* C18: in both directions the successive writes of a Powerline (blank,    *)
(* label, blank, separator for each label in order) tile: each covers as   *)
(* many cells as it has glyphs, consecutive writes are adjacent with no    *)
(* gap and no overlap, the forward writes start at the rectangle's left    *)
(* edge and the reverse writes end at its right edge.                      *)
C18_PowerlineWritesTile ==
    WidgetDone("Powerline") =>
        /\ ~out.failed
        /\ Len(out.writes) = 4 * Len(widget.labels)
        /\ \A k \in 1..Len(out.writes) :
              /\ Len(out.writes[k].text) = PowerlineTexts(widget.labels)[k]
              /\ out.writes[k].y = area.y
              /\ WriteFrom(k) >= 0
        /\ \A k \in 1..(Len(out.writes) - 1) :
              IF widget.direction = "LeftToRight"
              THEN WriteFrom(k + 1) = WriteTo(k)
              ELSE WriteTo(k + 1) = WriteFrom(k)
        /\ out.writes # <<>> =>
              IF widget.direction = "LeftToRight"
              THEN WriteFrom(1) = area.x
              ELSE WriteTo(1) = Right(area)

----------------------------------------------------------------------------
(* Claims about the sub-columns of BarChart's glyphs. *)

(* The mask whose first (left) sub-column, bits 0-3 of the DOTS index,     *)
(* holds the bit run `first` and whose second (right) sub-column, bits     *)
(* 4-7, holds `second`.                                                    *)
SubColumns(first, second) == first + 16 * second

(* C20: in every glyph BarChart emits the even-indexed sample of the cell  *)
(* lights the first (left) sub-column and the odd-indexed one the second;  *)
(* an even-indexed sample is in the same nibble whether its cell holds a   *)
(* complete pair or it is the final unpaired sample.  (Samples are counted *)
(* from 0 in the code and from 1 here: glyph g holds samples 2g-1 and 2g.) *)
C20_EvenSampleLightsFirstSubColumn ==
    WidgetDone("BarChart") =>
        \A g \in 1..Len(BarChartGlyphs) :
            BarChartGlyphs[g] =
                DOTS(SubColumns(NibbleOf(2 * g - 1),
                                IF 2 * g <= Len(widget.data) THEN NibbleOf(2 * g) ELSE 0))

----------------------------------------------------------------------------
(* Consume-once bindings over several passes on one Renderer. *)

(* The paint events the step adds. *)
NewPaints == {events'[i] : i \in (Len(events) + 1)..Len(events')}

(* The registry that holds the bindings of a kind of paint event. *)
RegistryOf(kind, widgets, bg_colors) == IF kind = "widget" THEN widgets ELSE bg_colors

(* C21: over any sequence of build_node calls, background bindings and     *)
(* render passes on one Renderer, each binding is painted at most once:    *)
(* every paint is of a binding inserted and not painted since, and the     *)
(* step that paints it removes it from the registry, so that a second pass *)
(* without rebinding paints nothing.                                       *)
C21_BindingPaintedAtMostOnce ==
    [][\A e \in NewPaints :
          /\ e \in unpainted
          /\ e.node \notin DOMAIN RegistryOf(e.kind, stretch_node_to_widget',
                                             stretch_node_to_bg_color')
          /\ Cardinality(NewPaints) = Len(events') - Len(events)]_vars

(* A second pass over the tree has ended: the first painted the widget and *)
(* the background of both nodes, the second painted nothing.               *)
C21_Witness ==
    /\ pc = "done"
    /\ \A n \in TreeNodes : visits[n] = 2
    /\ Len(events) = 2 * Cardinality(TreeNodes)
    /\ \A n \in TreeNodes, kind \in {"bg", "widget"} :
          Cardinality({i \in 1..Len(events) :
                          events[i] = [kind |-> kind, node |-> n]}) = 1
    /\ unpainted = {}

----------------------------------------------------------------------------
(* The cells a BoxFrame writes, against its rectangle. *)

(* The three writes of the label run (widgets.rs 320-327): the last three  *)
(* writes of a rendered frame.                                             *)
LabelRun == {k \in 1..Len(out.writes) : k > Len(out.writes) - 3}

(* The cell of the top-right corner glyph. *)
TopRightCorner == <<Right(area) - 1, area.y>>

(* C22: every cell a BoxFrame writes lies inside the rectangle it is       *)
(* given: for any width >= 1, height >= 1 and any label, the border glyphs *)
(* and the label run (blank, label, trailing blank) stay inside the        *)
(* rectangle, and the label run does not overwrite the top-right corner    *)
(* glyph.                                                                  *)
C22_FrameWritesInsideRectangle ==
    (WidgetDone("BoxFrame") /\ area.width >= 1 /\ area.height >= 1) =>
        /\ ~out.failed
        /\ CellsWritten(out) \subseteq RectCells(area)
        /\ \A k \in LabelRun : TopRightCorner \notin WriteCells(out.writes[k])

====
